---- MODULE Spec2Model ----
(***************************************************************************)
(* A model of the tabular ingestion path (src/src/utils/parsing.py) and of *)
(* the structured-output extractor (src/src/utils/parsing_answer.py).      *)
(*                                                                         *)
(* Text is a sequence of tokens.  A token stands for one character of the  *)
(* Python string ("nl" = "\n", "cr" = "\r", "ws" = " ", "|", "#", ...) or  *)
(* for one lexical unit whose inside no regular expression of the code     *)
(* looks into: "fo" = "```json", "fc" = "```", "R" / "J" / "S" = one match *)
(* of the REPORT / JSON / JSON_SCHEMA marker pattern, "v" = a JSON scalar  *)
(* literal, "k" = an object key with its colon, "t" = a word of prose.     *)
(* len() of a string is the number of its tokens.                          *)
(***************************************************************************)
EXTENDS Integers, Sequences, FiniteSets, TLC

VARIABLES
    \* parse_workbook_all_sheets_to_markdown
    xls,                \* the workbook: one DataFrame per sheet, in native order
    pc,                 \* position of the call
    max_total_chars,
    max_rows_per_sheet,
    sheet_names,        \* the filtered sheets still to process, as sheet numbers
    i,                  \* position of the for loop in sheet_names
    parts,
    total_len,
    combined,           \* the returned text
    \* parse_raw_data
    file,               \* the frame the reader loads from the input path
    df,
    max_rows_for_markdown,
    t_pc,
    markdown_table,
    \* parse_report_json_schema
    text,
    s,
    report_chunk,
    json_chunk,
    schema_chunk,
    json_obj,
    json_schema,
    e_pc,
    result,
    \* _extract_json_from_chunk on its own
    chunk,
    c_pc,
    chunk_out

concatVars == <<xls, pc, max_total_chars, max_rows_per_sheet, sheet_names, i,
                parts, total_len, combined>>
tableVars == <<file, df, max_rows_for_markdown, t_pc, markdown_table>>
extractVars == <<text, s, report_chunk, json_chunk, schema_chunk, json_obj,
                 json_schema, e_pc, result>>
chunkVars == <<chunk, c_pc, chunk_out>>
vars == <<concatVars, tableVars, extractVars, chunkVars>>

None == "None"

-----------------------------------------------------------------------------
(* Bounds of the model.                                                    *)

MaxSheets == 3
MaxBudget == 48
MaxCols == 2
MaxRows == 2
MaxPieces == 5
MaxChunkLen == 5

-----------------------------------------------------------------------------
(* Strings.                                                                *)

IsSpace(c) == c \in {"nl", "ws", "cr"}

RECURSIVE lstrip(_)
lstrip(str) ==
    IF str = <<>> THEN <<>>
    ELSE IF IsSpace(Head(str)) THEN lstrip(Tail(str)) ELSE str

RECURSIVE rstrip(_)
rstrip(str) ==
    IF str = <<>> THEN <<>>
    ELSE IF IsSpace(str[Len(str)]) THEN rstrip(SubSeq(str, 1, Len(str) - 1))
    ELSE str

strip(str) == lstrip(rstrip(str))

RECURSIVE join(_)
join(ps) == IF ps = <<>> THEN <<>> ELSE Head(ps) \o join(Tail(ps))

\* join with a separator, "\n".join(lines)
RECURSIVE join_lines(_)
join_lines(ls) ==
    IF ls = <<>> THEN <<>>
    ELSE IF Len(ls) = 1 THEN ls[1]
    ELSE ls[1] \o <<"nl">> \o join_lines(Tail(ls))

\* str(n) of a natural number, one token per decimal digit
RECURSIVE Digits(_)
Digits(n) ==
    LET d == <<"0", "1", "2", "3", "4", "5", "6", "7", "8", "9">>[(n % 10) + 1]
    IN IF n < 10 THEN <<d>> ELSE Digits(n \div 10) \o <<d>>

-----------------------------------------------------------------------------
(* DataFrames: [columns |-> names, rows |-> rows of cells]; "nan" is the   *)
(* missing value pandas reads from a blank cell.                           *)

ColName(j) == IF j = 1 THEN <<"a">> ELSE <<"ws", "b", "nl", "c">> \o [k \in 1..(j - 2) |-> "c"]

Cells == {"nan", "x"}

RowsOf(c, r) == [1..r -> [1..c -> Cells]]

Tables ==
    UNION { { [columns |-> [j \in 1..c |-> ColName(j)], rows |-> rs] : rs \in RowsOf(c, r) }
            : <<c, r>> \in (0..MaxCols) \X (0..MaxRows) }

\* df.dropna(axis=0, how="all")
dropna_rows(d) ==
    [d EXCEPT !.rows = SelectSeq(d.rows, LAMBDA r : \E j \in 1..Len(r) : r[j] # "nan")]

\* df.dropna(axis=1, how="all"): a column stays when some remaining row holds a value in it
dropna_cols(d) ==
    LET n == Len(d.columns)
        keep == SelectSeq([j \in 1..n |-> j],
                          LAMBDA j : \E r \in 1..Len(d.rows) : d.rows[r][j] # "nan")
    IN [columns |-> [k \in 1..Len(keep) |-> d.columns[keep[k]]],
        rows |-> [r \in 1..Len(d.rows) |-> [k \in 1..Len(keep) |-> d.rows[r][keep[k]]]]]

\* df.head(max_rows)
head(d, n) == [d EXCEPT !.rows = SubSeq(d.rows, 1, n)]

\* str(c).strip().replace("\n", " ")
clean_column(c) == LET st == strip(c) IN [k \in 1..Len(st) |-> IF st[k] = "nl" THEN "ws" ELSE st[k]]

\* one line of the pipe table: | c1 | c2 |
RECURSIVE pipe_row(_)
pipe_row(cells) == IF cells = <<>> THEN <<"|">> ELSE <<"|">> \o Head(cells) \o pipe_row(Tail(cells))

\* df.to_markdown(index=False): header row, separator row, one row per data row;
\* the empty string for a frame with neither columns nor rows
to_markdown(d) ==
    IF d.columns = <<>> THEN <<>>
    ELSE join_lines(<<pipe_row(d.columns), pipe_row([j \in 1..Len(d.columns) |-> <<"-">>])>>
                    \o [r \in 1..Len(d.rows) |-> pipe_row([j \in 1..Len(d.columns) |-> <<d.rows[r][j]>>])])

\* An optional argument is <<>> for None and <<x>> for the value x.
NeedsHead(d, max_rows) == max_rows # <<>> /\ Len(d.rows) > max_rows[1]

df_to_llm_markdown(d, max_rows) ==
    LET d1 == IF NeedsHead(d, max_rows) THEN head(d, max_rows[1]) ELSE d
        d2 == [d1 EXCEPT !.columns = [j \in 1..Len(d1.columns) |-> clean_column(d1.columns[j])]]
    IN to_markdown(d2)

Normalized(d) == dropna_cols(dropna_rows(d))

\* what parse_raw_data returns for a readable file holding frame d
parse_raw_data(d, max_rows) == df_to_llm_markdown(Normalized(d), max_rows)

-----------------------------------------------------------------------------
(* parse_raw_data, statement by statement.                                 *)

RowCaps == {<<>>} \cup { <<n>> : n \in 0..MaxRows }

TableIdle ==
    /\ file = None /\ df = None /\ max_rows_for_markdown = None /\ t_pc = "off"
    /\ markdown_table = None

ExtractIdle ==
    /\ text = None /\ s = None /\ report_chunk = None /\ json_chunk = None
    /\ schema_chunk = None /\ json_obj = None /\ json_schema = None
    /\ e_pc = "off" /\ result = None

ChunkIdle == chunk = None /\ c_pc = "off" /\ chunk_out = None

ConcatIdle ==
    /\ xls = None /\ pc = "off" /\ max_total_chars = None /\ max_rows_per_sheet = None
    /\ sheet_names = None /\ i = None /\ parts = None /\ total_len = None /\ combined = None

TableInit ==
    /\ t_pc = "call"
    /\ file \in Tables
    /\ df = None /\ max_rows_for_markdown = None /\ markdown_table = None
    /\ ConcatIdle /\ ExtractIdle /\ ChunkIdle

SUPPORTED_CSV_EXTS == {".csv"}
SUPPORTED_EXCEL_EXTS == {".xlsx", ".xls", ".xlsm", ".xlsb"}
Exts == {".csv", ".xlsx", ".txt"}

\* the call up to the loaded frame: the path is checked, the file read by its extension
Load ==
    /\ t_pc = "call"
    /\ \E exists \in BOOLEAN, ext \in Exts, cap \in RowCaps :
         IF ~exists THEN
            /\ t_pc' = "FileNotFoundError"
            /\ UNCHANGED <<df, max_rows_for_markdown>>
         ELSE IF ext \notin SUPPORTED_CSV_EXTS \cup SUPPORTED_EXCEL_EXTS THEN
            /\ t_pc' = "ValueError"
            /\ UNCHANGED <<df, max_rows_for_markdown>>
         ELSE
            /\ df' = file
            /\ max_rows_for_markdown' = cap
            /\ t_pc' = "normalize"
    /\ UNCHANGED <<file, markdown_table, concatVars, extractVars, chunkVars>>

Normalize ==
    /\ t_pc = "normalize"
    /\ df' = Normalized(df)
    /\ t_pc' = "render"
    /\ UNCHANGED <<file, max_rows_for_markdown, markdown_table, concatVars, extractVars, chunkVars>>

Render ==
    /\ t_pc = "render"
    /\ markdown_table' = df_to_llm_markdown(df, max_rows_for_markdown)
    /\ t_pc' = "done"
    /\ UNCHANGED <<file, df, max_rows_for_markdown, concatVars, extractVars, chunkVars>>

TableNext == Load \/ Normalize \/ Render

SpecTable == TableInit /\ [][TableNext]_vars

-----------------------------------------------------------------------------
(* parse_workbook_all_sheets_to_markdown.                                  *)

\* the frames a sheet of the workbook may hold
SheetTables ==
    << [columns |-> <<ColName(1)>>, rows |-> << <<"x">> >>],
       [columns |-> <<ColName(1), ColName(2)>>, rows |-> << <<"nan", "nan">> >>],
       [columns |-> <<ColName(1), ColName(2)>>,
        rows |-> << <<"x", "nan">>, <<"nan", "nan">>, <<"x", "nan">> >>] >>

SheetFrames == { SheetTables[n] : n \in 1..Len(SheetTables) }

Workbooks == UNION { [1..n -> SheetFrames] : n \in 0..MaxSheets }

\* sheet number k of a workbook is named by k letters
SheetName(k) == [j \in 1..k |-> "s"]

SheetFilters == {<<>>} \cup { <<f>> : f \in SUBSET (1..MaxSheets) }
SheetRowCaps == {<<>>, <<1>>}

\* lines 162-170: the native sheet order, through the include and the exclude filter
FilteredSheets(names, include_sheets, exclude_sheets) ==
    LET included == IF include_sheets # <<>>
                    THEN SelectSeq(names, LAMBDA n : n \in include_sheets[1])
                    ELSE names
    IN IF exclude_sheets # <<>>
       THEN SelectSeq(included, LAMBDA n : n \notin exclude_sheets[1])
       ELSE included

\* f"\n\n## Sheet: {sheet}\n\n{sheet_md}\n"
Block(sheet, sheet_md) ==
    <<"nl", "nl", "#", "#">> \o SheetName(sheet) \o <<"nl", "nl">> \o sheet_md \o <<"nl">>

\* f"\n\n---\n*Stopped ... sheet '{sheet}' ... max_total_chars={max_total_chars}.*\n"
Note(sheet, budget) ==
    <<"nl", "nl", "-", "-", "-", "nl", "*">> \o SheetName(sheet) \o <<"=">>
        \o Digits(budget) \o <<".", "*", "nl">>

\* the budget test forgetting what is already accumulated
ExceedsIgnoringTotal(total, block, budget) == Len(block) > budget

\* line 192
Exceeds(total, block, budget) == total + Len(block) > budget

\* the notice test off by one
NoteFitsStrict(total, note, budget) == total + Len(note) < budget

\* the notice test forgetting what is already accumulated
NoteFitsIgnoringTotal(total, note, budget) == Len(note) <= budget

\* line 199
NoteFits(total, note, budget) == total + Len(note) <= budget

ConcatInit ==
    /\ pc = "call"
    /\ xls \in Workbooks
    /\ max_total_chars = None /\ max_rows_per_sheet = None /\ sheet_names = None
    /\ i = None /\ parts = None /\ total_len = None /\ combined = None
    /\ TableIdle /\ ExtractIdle /\ ChunkIdle

\* lines 149-173: the path and extension checks, the sheet filters, the empty accumulator
Call ==
    /\ pc = "call"
    /\ \E exists \in BOOLEAN, ext \in Exts :
         IF ~exists THEN
            /\ pc' = "FileNotFoundError"
            /\ UNCHANGED <<max_total_chars, max_rows_per_sheet, sheet_names, i, parts, total_len>>
         ELSE IF ext \notin SUPPORTED_EXCEL_EXTS THEN
            /\ pc' = "ValueError"
            /\ UNCHANGED <<max_total_chars, max_rows_per_sheet, sheet_names, i, parts, total_len>>
         ELSE
            \E budget \in 0..MaxBudget, cap \in SheetRowCaps,
               include_sheets \in SheetFilters, exclude_sheets \in SheetFilters :
               /\ max_total_chars' = budget
               /\ max_rows_per_sheet' = cap
               /\ sheet_names' = FilteredSheets([k \in 1..Len(xls) |-> k],
                                                include_sheets, exclude_sheets)
               /\ i' = 1
               /\ parts' = <<>>
               /\ total_len' = 0
               /\ pc' = "loop"
    /\ UNCHANGED <<xls, combined, tableVars, extractVars, chunkVars>>

\* one iteration that fills the remaining budget with the head of the block
LoopIterSplit ==
    /\ pc = "loop"
    /\ i <= Len(sheet_names)
    /\ LET sheet == sheet_names[i]
           sheet_md == parse_raw_data(xls[sheet], max_rows_per_sheet)
           block == Block(sheet, sheet_md)
       IN IF Exceeds(total_len, block, max_total_chars) THEN
             /\ parts' = Append(parts, SubSeq(block, 1, max_total_chars - total_len))
             /\ total_len' = max_total_chars
             /\ pc' = "join"
             /\ i' = i
          ELSE
             /\ parts' = Append(parts, block)
             /\ total_len' = total_len + Len(block)
             /\ i' = i + 1
             /\ pc' = "loop"
    /\ UNCHANGED <<xls, max_total_chars, max_rows_per_sheet, sheet_names, combined,
                   tableVars, extractVars, chunkVars>>

\* one iteration that passes over a sheet that does not fit and goes on (continue for break)
LoopIterSkip ==
    /\ pc = "loop"
    /\ i <= Len(sheet_names)
    /\ LET sheet == sheet_names[i]
           sheet_md == parse_raw_data(xls[sheet], max_rows_per_sheet)
           block == Block(sheet, sheet_md)
       IN IF Exceeds(total_len, block, max_total_chars) THEN
             /\ UNCHANGED <<parts, total_len>>
             /\ i' = i + 1
             /\ pc' = "loop"
          ELSE
             /\ parts' = Append(parts, block)
             /\ total_len' = total_len + Len(block)
             /\ i' = i + 1
             /\ pc' = "loop"
    /\ UNCHANGED <<xls, max_total_chars, max_rows_per_sheet, sheet_names, combined,
                   tableVars, extractVars, chunkVars>>

\* lines 175-205: one iteration of the for loop
LoopIter ==
    /\ pc = "loop"
    /\ i <= Len(sheet_names)
    /\ LET sheet == sheet_names[i]
           sheet_md == parse_raw_data(xls[sheet], max_rows_per_sheet)
           block == Block(sheet, sheet_md)
           note == Note(sheet, max_total_chars)
       IN IF Exceeds(total_len, block, max_total_chars) THEN
             /\ IF NoteFits(total_len, note, max_total_chars)
                THEN /\ parts' = Append(parts, note)
                     /\ total_len' = total_len + Len(note)
                ELSE UNCHANGED <<parts, total_len>>
             /\ pc' = "join"
             /\ i' = i
          ELSE
             /\ parts' = Append(parts, block)
             /\ total_len' = total_len + Len(block)
             /\ i' = i + 1
             /\ pc' = "loop"
    /\ UNCHANGED <<xls, max_total_chars, max_rows_per_sheet, sheet_names, combined,
                   tableVars, extractVars, chunkVars>>

\* the for loop runs out of sheets
LoopEnd ==
    /\ pc = "loop"
    /\ i > Len(sheet_names)
    /\ pc' = "join"
    /\ UNCHANGED <<xls, max_total_chars, max_rows_per_sheet, sheet_names, i, parts,
                   total_len, combined, tableVars, extractVars, chunkVars>>

\* lines 207-218
Return ==
    /\ pc = "join"
    /\ combined' = lstrip(join(parts))
    /\ pc' = "done"
    /\ UNCHANGED <<xls, max_total_chars, max_rows_per_sheet, sheet_names, i, parts,
                   total_len, tableVars, extractVars, chunkVars>>

ConcatNext == Call \/ LoopIter \/ LoopEnd \/ Return

Spec == ConcatInit /\ [][ConcatNext]_vars

-----------------------------------------------------------------------------
(* Properties of parse_workbook_all_sheets_to_markdown.                    *)

InLoop == pc \in {"loop", "join", "done"}

\* the block of the k-th selected sheet, as the loop builds it
SheetBlock(k) ==
    Block(sheet_names[k], parse_raw_data(xls[sheet_names[k]], max_rows_per_sheet))

\* the blocks of the first n selected sheets, whole and in order
Blocks(n) == [k \in 1..n |-> SheetBlock(k)]

\* the loop stopped at a sheet that did not fit
Truncated == pc = "done" /\ i <= Len(sheet_names)

IsSuffix(a, b) == Len(a) <= Len(b) /\ SubSeq(b, Len(b) - Len(a) + 1, Len(b)) = a

\* the returned text ends with the truncation notice
HasNotice(t) ==
    \E k \in 1..MaxSheets : IsSuffix(lstrip(Note(k, max_total_chars)), t)

\* C1: for every workbook, sheet filter and budget >= 0 the running total_len
\* never exceeds max_total_chars after any loop iteration, and the returned
\* text is no longer than max_total_chars, with or without the notice.
C1_BudgetInvariant ==
    /\ InLoop => total_len <= max_total_chars
    /\ pc = "done" => Len(combined) <= max_total_chars

\* a call that appended a block and then the notice, filling the budget exactly
C1_Witness ==
    /\ pc = "done"
    /\ Len(parts) >= 2
    /\ parts[Len(parts)] = Note(sheet_names[i], max_total_chars)
    /\ total_len = max_total_chars

\* C2: the returned text is made of whole blocks only: it is the blocks of the
\* first n selected sheets, each in full (section header, sheet name, rendered
\* table), optionally followed by the notice, behind the lstrip() of line 207,
\* which takes the two leading newlines off the first part and nothing of any
\* header or table; the block of every other sheet is absent altogether.
C2_WholeSheets ==
    pc = "done" =>
        \E n \in 0..Len(sheet_names) :
            \/ combined = lstrip(join(Blocks(n)))
            \/ /\ n < Len(sheet_names)
               /\ combined = lstrip(join(Blocks(n)) \o Note(sheet_names[n + 1], max_total_chars))

\* a truncated call: one block is in the text, the next sheet's block is not
C2_Witness ==
    /\ Truncated
    /\ i = 2
    /\ Len(sheet_names) >= 2
    /\ Len(SheetBlock(2)) <= max_total_chars
    /\ combined = lstrip(SheetBlock(1))

\* C7 as claimed: whenever the loop stops at a sheet that does not fit, the
\* returned text carries the truncation notice.
C7_AlwaysSignaled == Truncated => HasNotice(combined)

\* C7: truncation is never raised (the only raising states are those of the
\* path checks, before the loop); a truncated call returns, and its text
\* carries the notice exactly when the notice fits in the remaining budget,
\* otherwise it is the text of the included blocks alone; a call that
\* included every selected sheet never carries the notice.
C7_SignaledWhenNoteFits ==
    /\ pc \in {"FileNotFoundError", "ValueError"} => parts = None
    /\ Truncated =>
          /\ HasNotice(combined) <=>
                Len(join(Blocks(i - 1))) + Len(Note(sheet_names[i], max_total_chars))
                    <= max_total_chars
          /\ ~HasNotice(combined) => combined = lstrip(join(Blocks(i - 1)))
    /\ (pc = "done" /\ ~Truncated) => ~HasNotice(combined)

\* a truncated call whose text holds a block and no notice
C7_Witness ==
    /\ Truncated
    /\ Len(parts) >= 1
    /\ ~HasNotice(combined)

\* the loop has ended: by the break of line 202 or by running out of sheets
Stopped == pc \in {"join", "done"}

\* the parts that are sheet blocks: all of them but a final notice
BlockParts ==
    IF parts # <<>> /\ i <= Len(sheet_names)
          /\ parts[Len(parts)] = Note(sheet_names[i], max_total_chars)
    THEN SubSeq(parts, 1, Len(parts) - 1)
    ELSE parts

\* C11: the sheets are taken in processing order and the appended blocks are
\* always those of a prefix of the filtered sheet sequence, in order; the loop
\* stops at the first sheet whose block would make the accumulated length
\* exceed the budget: every sheet before it fitted and stays in the result, and
\* once stopped no sheet is appended any more, not even a later one that
\* would fit.
C11_StopsAtFirstNonFitting ==
    /\ [](InLoop =>
            /\ i \in 1..(Len(sheet_names) + 1)
            /\ BlockParts = Blocks(i - 1)
            /\ pc = "loop" => parts = Blocks(i - 1)
            /\ (Stopped /\ i <= Len(sheet_names)) =>
                   Len(join(Blocks(i - 1))) + Len(SheetBlock(i)) > max_total_chars
            /\ Len(join(Blocks(i - 1))) <= max_total_chars)
    /\ [][Stopped => (parts' = parts /\ i' = i /\ total_len' = total_len)]_vars
    /\ [][pc = "loop" =>
            (Len(parts') >= Len(parts) /\ SubSeq(parts', 1, Len(parts)) = parts)]_vars

\* a call that appended the first sheet, stopped at the second and returned
\* without the third, whose block would have fitted in the remaining budget
C11_Witness ==
    /\ Truncated
    /\ i = 2
    /\ Len(sheet_names) = 3
    /\ Len(SheetBlock(1)) + Len(SheetBlock(3)) <= max_total_chars
    /\ BlockParts = <<SheetBlock(1)>>

\* the notice the loop builds when it stops at sheet i
StopNote == Note(sheet_names[i], max_total_chars)

IsNote(part) == \E k \in 1..MaxSheets : part = Note(k, max_total_chars)

\* the positions of parts that hold a notice
NotePositions == { k \in 1..Len(parts) : IsNote(parts[k]) }

\* the notice is appended exactly when the loop stopped at a sheet that does
\* not fit and accumulated length + notice length <= budget; it is appended at
\* most once, whole, as the last part behind the blocks of the included
\* sheets, and never when every selected sheet fitted
NoticeRule ==
    InLoop =>
        /\ pc = "loop" => NotePositions = {}
        /\ (Stopped /\ i > Len(sheet_names)) => NotePositions = {}
        /\ (Stopped /\ i <= Len(sheet_names)) =>
              IF Len(join(Blocks(i - 1))) + Len(StopNote) <= max_total_chars
              THEN parts = Append(Blocks(i - 1), StopNote)
              ELSE parts = Blocks(i - 1)
        /\ (pc = "done" /\ i > 1 /\ NotePositions # {}) =>
              combined = lstrip(join(Blocks(i - 1))) \o StopNote

\* no sheet was included
NoneIncluded == pc = "done" /\ i = 1

\* C12 as claimed: the notice rule, and when zero sheets fit the returned text
\* is either empty or exactly the notice.
C12_ExactNoticeWhenNoneFit ==
    /\ NoticeRule
    /\ NoneIncluded => (combined = <<>> \/ combined = StopNote)

\* C12: the notice rule, and when zero sheets fit the returned text is either
\* empty or the notice without its two leading newlines, which the lstrip()
\* of line 207 takes off the first part; it is never the notice as appended.
C12_StrippedNoticeWhenNoneFit ==
    /\ NoticeRule
    /\ NoneIncluded =>
          /\ combined = <<>> \/ combined = lstrip(StopNote)
          /\ NotePositions # {} =>
                (combined = SubSeq(StopNote, 3, Len(StopNote)) /\ combined # StopNote)
          /\ NotePositions = {} => combined = <<>>

\* no sheet fitted, the notice did, and the notice alone was returned
C12_Witness ==
    /\ NoneIncluded
    /\ Len(sheet_names) >= 1
    /\ parts = <<StopNote>>
    /\ combined = lstrip(StopNote)

-----------------------------------------------------------------------------
(* The extractor, src/src/utils/parsing_answer.py.                         *)

\* s.replace("\r\n", "\n")
RECURSIVE replace_crlf(_)
replace_crlf(str) ==
    IF str = <<>> THEN <<>>
    ELSE IF Len(str) >= 2 /\ str[1] = "cr" /\ str[2] = "nl"
         THEN <<"nl">> \o replace_crlf(SubSeq(str, 3, Len(str)))
         ELSE <<Head(str)>> \o replace_crlf(Tail(str))

\* s.replace("\r", "\n")
replace_cr(str) == [k \in 1..Len(str) |-> IF str[k] = "cr" THEN "nl" ELSE str[k]]

normalize_newlines(str) == replace_cr(replace_crlf(str))

\* _SECTION_PATTERNS: a marker pattern matches exactly its marker token
SECTION_PATTERNS == [report |-> "R", json |-> "J", json_schema |-> "S"]

\* re.search(pat, str) for a marker pattern: the position of the first match, 0 for no match
RECURSIVE search_from(_, _, _)
search_from(pat, str, p) ==
    IF p > Len(str) THEN 0
    ELSE IF str[p] = pat THEN p ELSE search_from(pat, str, p + 1)

search(pat, str) == search_from(pat, str, 1)

Raise(msg, pat) == [ok |-> FALSE, error |-> msg, pat |-> pat, chunk |-> <<>>]

\* the end marker searched in the whole text instead of behind the start marker
extract_between_end_anywhere(str, start_pat, end_pat) ==
    LET start == search(start_pat, str)
    IN IF start = 0 THEN Raise("Start section not found", start_pat)
       ELSE IF end_pat = <<>>
            THEN [ok |-> TRUE, error |-> "", pat |-> "",
                  chunk |-> strip(SubSeq(str, start + 1, Len(str)))]
            ELSE LET end == search(end_pat[1], str)
                 IN IF end = 0 THEN Raise("End section not found", end_pat[1])
                    ELSE [ok |-> TRUE, error |-> "", pat |-> "",
                          chunk |-> strip(SubSeq(str, start + 1, end - 1))]

\* the end marker ignored: the chunk runs to the end of the text
extract_between_to_end(str, start_pat, end_pat) ==
    LET start == search(start_pat, str)
    IN IF start = 0 THEN Raise("Start section not found", start_pat)
       ELSE [ok |-> TRUE, error |-> "", pat |-> "",
             chunk |-> strip(SubSeq(str, start + 1, Len(str)))]

\* _extract_between; end_pat is <<>> for None
extract_between(str, start_pat, end_pat) ==
    LET start == search(start_pat, str)
    IN IF start = 0 THEN Raise("Start section not found", start_pat)
       ELSE LET rest == SubSeq(str, start + 1, Len(str))
            IN IF end_pat = <<>>
               THEN [ok |-> TRUE, error |-> "", pat |-> "", chunk |-> strip(rest)]
               ELSE LET end == search(end_pat[1], rest)
                    IN IF end = 0 THEN Raise("End section not found", end_pat[1])
                       ELSE [ok |-> TRUE, error |-> "", pat |-> "",
                             chunk |-> strip(SubSeq(rest, 1, end - 1))]

\* --- json.loads -----------------------------------------------------------
\* The JSON texts of the model are built from "{", "}", "[", "]", a scalar "v"
\* and a key "k" (a string and its colon); an object holds at most one member
\* and an array at most one element, so no comma occurs.  The parsed value is
\* the text without its whitespace.

\* the position after the value that starts at p, 0 when there is none
RECURSIVE parse_value(_, _)
parse_value(toks, p) ==
    IF p > Len(toks) THEN 0
    ELSE IF toks[p] = "v" THEN p + 1
    ELSE IF toks[p] = "{" THEN
        IF p + 1 <= Len(toks) /\ toks[p + 1] = "}" THEN p + 2
        ELSE IF p + 1 <= Len(toks) /\ toks[p + 1] = "k" THEN
            LET r == parse_value(toks, p + 2)
            IN IF r # 0 /\ r <= Len(toks) /\ toks[r] = "}" THEN r + 1 ELSE 0
        ELSE 0
    ELSE IF toks[p] = "[" THEN
        IF p + 1 <= Len(toks) /\ toks[p + 1] = "]" THEN p + 2
        ELSE LET r == parse_value(toks, p + 1)
             IN IF r # 0 /\ r <= Len(toks) /\ toks[r] = "]" THEN r + 1 ELSE 0
    ELSE 0

\* json.loads(str): <<value>>, or <<>> for a JSONDecodeError
loads(str) ==
    LET toks == SelectSeq(str, LAMBDA c : ~IsSpace(c))
    IN IF parse_value(toks, 1) = Len(toks) + 1 THEN <<toks>> ELSE <<>>

IsDict(value) == value # <<>> /\ value[1] = "{"
IsList(value) == value # <<>> /\ value[1] = "["

\* --- the three regular expressions of _extract_json_from_chunk ------------

IsFence(c) == c \in {"fo", "fc"}     \* "```json" starts with "```" too

\* (.*?)\n```: the first newline at or after p that a fence follows, 0 for none
RECURSIVE find_close(_, _)
find_close(str, p) ==
    IF p + 1 > Len(str) THEN 0
    ELSE IF str[p] = "nl" /\ IsFence(str[p + 1]) THEN p
    ELSE find_close(str, p + 1)

\* the end of the whitespace run that starts at p
RECURSIVE space_end(_, _)
space_end(str, p) ==
    IF p <= Len(str) /\ IsSpace(str[p]) THEN space_end(str, p + 1) ELSE p - 1

\* \s*\n, greedy, behind the opening fence at p: the newline is tried from the
\* last position q of the whitespace run down to p + 1; <<q, j>> for the first
\* q with a closing newline j behind it, <<>> when no q has one
RECURSIVE try_open(_, _, _)
try_open(str, p, q) ==
    IF q <= p THEN <<>>
    ELSE IF str[q] = "nl" /\ find_close(str, q + 1) # 0
         THEN <<q, find_close(str, q + 1)>>
         ELSE try_open(str, p, q - 1)

\* re.search(r"```json\s*\n(.*?)\n```", str): <<group 1>>, or <<>> for no match
RECURSIVE search_fence(_, _)
search_fence(str, p) ==
    IF p > Len(str) THEN <<>>
    ELSE LET m == IF str[p] = "fo" THEN try_open(str, p, space_end(str, p + 1)) ELSE <<>>
         IN IF m # <<>> THEN <<SubSeq(str, m[1] + 1, m[2] - 1)>>
            ELSE search_fence(str, p + 1)

Closer(c) == IF c = "{" THEN "}" ELSE "]"

\* the last position after p holding token c, 0 for none
RECURSIVE last_of(_, _, _)
last_of(c, str, q) ==
    IF q < 1 THEN 0 ELSE IF str[q] = c THEN q ELSE last_of(c, str, q - 1)

\* re.search(r"(\{.*\}|\[.*\])\s*$", str) on stripped text: <<group 1>> or <<>>
RECURSIVE search_anchored(_, _)
search_anchored(str, p) ==
    IF p >= Len(str) THEN <<>>
    ELSE IF str[p] \in {"{", "["} /\ str[Len(str)] = Closer(str[p])
         THEN <<SubSeq(str, p, Len(str))>>
         ELSE search_anchored(str, p + 1)

\* re.search(r"(\{.*\}|\[.*\])", str): <<group 1>> or <<>>
RECURSIVE search_anywhere(_, _)
search_anywhere(str, p) ==
    IF p >= Len(str) THEN <<>>
    ELSE IF str[p] \in {"{", "["} /\ last_of(Closer(str[p]), str, Len(str)) > p
         THEN <<SubSeq(str, p, last_of(Closer(str[p]), str, Len(str)))>>
         ELSE search_anywhere(str, p + 1)

\* lines 53-65: the text handed to json.loads and the branch that chose it
json_candidate(str) ==
    LET m == search_fence(str, 1)
    IN IF m # <<>> THEN [via |-> "fence", json_text |-> <<strip(m[1])>>]
       ELSE LET m2 == search_anchored(strip(str), 1)
            IN IF m2 # <<>> THEN [via |-> "anchored", json_text |-> <<strip(m2[1])>>]
               ELSE LET m3 == search_anywhere(str, 1)
                    IN IF m3 # <<>> THEN [via |-> "anywhere", json_text |-> <<strip(m3[1])>>]
                       ELSE [via |-> "none", json_text |-> <<>>]

\* _extract_json_from_chunk
extract_json_from_chunk(str) ==
    LET c == json_candidate(str)
    IN IF c.json_text = <<>>
       THEN [ok |-> FALSE, error |-> "JSON content not found in section.",
             via |-> c.via, json_text |-> <<>>, value |-> <<>>]
       ELSE LET v == loads(c.json_text[1])
            IN IF v = <<>>
               THEN [ok |-> FALSE, error |-> "Invalid JSON",
                     via |-> c.via, json_text |-> c.json_text, value |-> <<>>]
               ELSE [ok |-> TRUE, error |-> "",
                     via |-> c.via, json_text |-> c.json_text, value |-> v[1]]

\* the error kinds of the specification, by the message of the ValueError
ErrorKind(msg) ==
    CASE msg \in {"Start section not found", "End section not found"} -> "SectionNotFound"
      [] msg = "JSON content not found in section." -> "JsonNotFound"
      [] msg = "Invalid JSON" -> "JsonInvalid"
      [] msg = "JSON_SCHEMA must be a JSON object (dict)." -> "SchemaNotObject"

-----------------------------------------------------------------------------
(* _extract_json_from_chunk on every short chunk.                          *)

ChunkTokens == {"fo", "fc", "nl", "{", "}", "[", "]", "v"}

Chunks == UNION { [1..n -> ChunkTokens] : n \in 0..MaxChunkLen }

ChunkInit ==
    /\ chunk \in Chunks
    /\ c_pc = "call"
    /\ chunk_out = None
    /\ ConcatIdle /\ TableIdle /\ ExtractIdle

ExtractChunk ==
    /\ c_pc = "call"
    /\ chunk_out' = extract_json_from_chunk(chunk)
    /\ c_pc' = "done"
    /\ UNCHANGED <<chunk, concatVars, tableVars, extractVars>>

SpecChunk == ChunkInit /\ [][ExtractChunk]_vars

-----------------------------------------------------------------------------
(* parse_report_json_schema, statement by statement.                       *)

\* the pieces a model text is made of: prose, a REPORT marker with its prose,
\* the JSON and JSON_SCHEMA markers, and fenced json blocks holding an object
\* (CR and CRLF line ends), an array and a scalar
Prose == <<"nl", "t", "ws", "t", "nl">>
FencedObject == <<"nl", "fo", "cr", "{", "k", "v", "}", "cr", "nl", "fc", "nl">>
FencedArray == <<"nl", "fo", "nl", "[", "v", "]", "nl", "fc", "nl">>
FencedScalar == <<"fo", "nl", "v", "nl", "fc">>

Pieces ==
    { Prose, <<"R">> \o Prose, <<"J">>, <<"S">>,
      FencedObject, FencedArray, FencedScalar }

Texts == { join(ps) : ps \in UNION { [1..n -> Pieces] : n \in 0..MaxPieces } }

ExtractInit ==
    /\ text \in Texts
    /\ e_pc = "call"
    /\ s = None /\ report_chunk = None /\ json_chunk = None /\ schema_chunk = None
    /\ json_obj = None /\ json_schema = None /\ result = None
    /\ ConcatIdle /\ TableIdle /\ ChunkIdle

ValueError(msg, pat) == [error |-> msg, pat |-> pat]

\* line 90
NormalizeNewlines ==
    /\ e_pc = "call"
    /\ s' = normalize_newlines(text)
    /\ e_pc' = "report"
    /\ UNCHANGED <<text, report_chunk, json_chunk, schema_chunk, json_obj, json_schema,
                   result, concatVars, tableVars, chunkVars>>

\* lines 92-96
ExtractReport ==
    /\ e_pc = "report"
    /\ LET r == extract_between(s, SECTION_PATTERNS.report, <<SECTION_PATTERNS.json>>)
       IN IF r.ok
          THEN report_chunk' = r.chunk /\ e_pc' = "json" /\ UNCHANGED result
          ELSE result' = ValueError(r.error, r.pat) /\ e_pc' = "raised" /\ UNCHANGED report_chunk
    /\ UNCHANGED <<text, s, json_chunk, schema_chunk, json_obj, json_schema,
                   concatVars, tableVars, chunkVars>>

\* lines 98-102
ExtractJson ==
    /\ e_pc = "json"
    /\ LET r == extract_between(s, SECTION_PATTERNS.json, <<SECTION_PATTERNS.json_schema>>)
       IN IF r.ok
          THEN json_chunk' = r.chunk /\ e_pc' = "schema" /\ UNCHANGED result
          ELSE result' = ValueError(r.error, r.pat) /\ e_pc' = "raised" /\ UNCHANGED json_chunk
    /\ UNCHANGED <<text, s, report_chunk, schema_chunk, json_obj, json_schema,
                   concatVars, tableVars, chunkVars>>

\* lines 104-108
ExtractSchema ==
    /\ e_pc = "schema"
    /\ LET r == extract_between(s, SECTION_PATTERNS.json_schema, <<>>)
       IN IF r.ok
          THEN schema_chunk' = r.chunk /\ e_pc' = "load_json" /\ UNCHANGED result
          ELSE result' = ValueError(r.error, r.pat) /\ e_pc' = "raised" /\ UNCHANGED schema_chunk
    /\ UNCHANGED <<text, s, report_chunk, json_chunk, json_obj, json_schema,
                   concatVars, tableVars, chunkVars>>

\* line 110
LoadJson ==
    /\ e_pc = "load_json"
    /\ LET r == extract_json_from_chunk(json_chunk)
       IN IF r.ok
          THEN json_obj' = r.value /\ e_pc' = "load_schema" /\ UNCHANGED result
          ELSE result' = ValueError(r.error, "") /\ e_pc' = "raised" /\ UNCHANGED json_obj
    /\ UNCHANGED <<text, s, report_chunk, json_chunk, schema_chunk, json_schema,
                   concatVars, tableVars, chunkVars>>

\* line 111
LoadSchema ==
    /\ e_pc = "load_schema"
    /\ LET r == extract_json_from_chunk(schema_chunk)
       IN IF r.ok
          THEN json_schema' = r.value /\ e_pc' = "check" /\ UNCHANGED result
          ELSE result' = ValueError(r.error, "") /\ e_pc' = "raised" /\ UNCHANGED json_schema
    /\ UNCHANGED <<text, s, report_chunk, json_chunk, schema_chunk, json_obj,
                   concatVars, tableVars, chunkVars>>

\* the type test accepting a list as well
SchemaAcceptedLax(schema) == IsDict(schema) \/ IsList(schema)

\* line 113
SchemaAccepted(schema) == IsDict(schema)

\* lines 113-120
CheckAndReturn ==
    /\ e_pc = "check"
    /\ IF ~SchemaAccepted(json_schema)
       THEN /\ result' = ValueError("JSON_SCHEMA must be a JSON object (dict).", "")
            /\ e_pc' = "raised"
       ELSE /\ result' = [report |-> strip(report_chunk), json_obj |-> json_obj,
                          json_schema |-> json_schema]
            /\ e_pc' = "returned"
    /\ UNCHANGED <<text, s, report_chunk, json_chunk, schema_chunk, json_obj, json_schema,
                   concatVars, tableVars, chunkVars>>

ExtractNext ==
    \/ NormalizeNewlines \/ ExtractReport \/ ExtractJson \/ ExtractSchema
    \/ LoadJson \/ LoadSchema \/ CheckAndReturn

SpecExtract == ExtractInit /\ [][ExtractNext]_vars

-----------------------------------------------------------------------------
(* Properties of parse_report_json_schema.                                 *)

Terminal == e_pc \in {"returned", "raised"}

Raised(kind) == e_pc = "raised" /\ ErrorKind(result.error) = kind

ObjectValue == <<"{", "k", "v", "}">>
ArrayValue == <<"[", "v", "]">>
ScalarValue == <<"v">>

\* a fenced json block and the JSON value written in it
FencedBlocks ==
    { [block |-> FencedObject, value |-> ObjectValue],
      [block |-> FencedArray, value |-> ArrayValue],
      [block |-> FencedScalar, value |-> ScalarValue] }

Reports == {Prose}

\* REPORT + JSON + JSON_SCHEMA
FullShape(report, payload, schema) ==
    <<"R">> \o report \o <<"J">> \o payload \o <<"S">> \o schema

\* JSON + JSON_SCHEMA only
MinimalShape(payload, schema) == <<"J">> \o payload \o <<"S">> \o schema

RoundTrips(value) ==
    /\ e_pc = "returned"
    /\ result.json_obj = value
    /\ result.json_schema = ObjectValue

SchemaSectionNotObject ==
    LET c == extract_between(s, SECTION_PATTERNS.json_schema, <<>>)
    IN /\ c.ok
       /\ LET j == extract_json_from_chunk(c.chunk) IN j.ok /\ ~IsDict(j.value)

Markers == {"R", "J", "S"}

\* the positions of marker m in the normalized text
Pos(m) == { k \in 1..Len(s) : s[k] = m }

Least(ks) == CHOOSE k \in ks : \A l \in ks : k <= l

NoSchemaMarker == \A k \in 1..Len(text) : text[k] # "S"

\* C5 as claimed: any text without the JSON_SCHEMA marker fails with
\* SectionNotFound naming the JSON_SCHEMA marker.
C5_NamesSchemaMarker ==
    (Terminal /\ NoSchemaMarker) =>
        (Raised("SectionNotFound") /\ result.pat = SECTION_PATTERNS.json_schema)

\* the marker the extraction of a text without JSON_SCHEMA marker stops at
FirstMissing ==
    IF Pos("R") = {} THEN "R"
    ELSE IF \A k \in Pos("J") : k < Least(Pos("R")) THEN "J"
    ELSE "S"

\* C5: a text without the JSON_SCHEMA marker fails with SectionNotFound; the
\* error names JSON_SCHEMA when the text holds a REPORT marker and a JSON
\* marker behind it, and otherwise the marker that is missed first (REPORT,
\* then JSON).  The splitter raises "Start section not found" naming the start
\* marker when it is absent, "End section not found" naming the end marker
\* when one is asked for and none occurs behind the first start marker, and
\* returns a chunk otherwise.
C5_NamesFirstMissingMarker ==
    /\ (Terminal /\ NoSchemaMarker) =>
          (Raised("SectionNotFound") /\ result.pat = FirstMissing)
    /\ e_pc = "report" =>
          \A a \in Markers, b \in {<<>>} \cup { <<m>> : m \in Markers } :
              LET r == extract_between(s, a, b)
              IN IF Pos(a) = {}
                 THEN ~r.ok /\ r.error = "Start section not found" /\ r.pat = a
                 ELSE IF b # <<>> /\ (\A k \in Pos(b[1]) : k <= Least(Pos(a)))
                 THEN ~r.ok /\ r.error = "End section not found" /\ r.pat = b[1]
                 ELSE r.ok

\* a text with REPORT and JSON in order and no JSON_SCHEMA marker was refused
C5_Witness ==
    /\ Raised("SectionNotFound")
    /\ NoSchemaMarker
    /\ result.error = "End section not found"
    /\ result.pat = SECTION_PATTERNS.json_schema

\* C9: every returned result holds a payload that is a JSON object or a JSON
\* array, never a scalar.
C9_PayloadObjectOrArray ==
    e_pc = "returned" => (IsDict(result.json_obj) \/ IsList(result.json_obj))

\* the JSON found in a section is the value val
ParsesTo(section, val) ==
    LET x == extract_json_from_chunk(strip(section)) IN x.ok /\ x.value = val

\* marker occurrences REPORT < JSON < JSON_SCHEMA
Ordered == { m \in Pos("R") \X Pos("J") \X Pos("S") : m[1] < m[2] /\ m[2] < m[3] }

\* C10: a returned result comes from marker occurrences REPORT < JSON <
\* JSON_SCHEMA: the report is the text between that REPORT and that JSON
\* marker, the payload is parsed from the text between that JSON and that
\* JSON_SCHEMA marker, the schema from the text behind that JSON_SCHEMA
\* marker; a text without markers in this order fails with SectionNotFound.
C10_SectionsInOrder ==
    /\ e_pc = "returned" =>
          \E m \in Ordered :
              /\ result.report = strip(SubSeq(s, m[1] + 1, m[2] - 1))
              /\ ParsesTo(SubSeq(s, m[2] + 1, m[3] - 1), result.json_obj)
              /\ ParsesTo(SubSeq(s, m[3] + 1, Len(s)), result.json_schema)
    /\ (Terminal /\ Ordered = {}) => Raised("SectionNotFound")

-----------------------------------------------------------------------------
(* Properties of _extract_json_from_chunk.                                 *)

\* the closer that balances the opener at p, scanning from q at nesting depth d;
\* 0 when the brackets do not balance
RECURSIVE balance(_, _, _, _)
balance(str, p, q, d) ==
    IF q > Len(str) THEN 0
    ELSE IF str[q] \in {"{", "["} THEN balance(str, p, q + 1, d + 1)
    ELSE IF str[q] \in {"}", "]"} THEN
        IF d > 1 THEN balance(str, p, q + 1, d - 1)
        ELSE IF str[q] = Closer(str[p]) THEN q ELSE 0
    ELSE balance(str, p, q + 1, d)

\* the balanced {...} and [...] spans of a text
BalancedSpans(str) ==
    { sp \in (1..Len(str)) \X (1..Len(str)) :
        str[sp[1]] \in {"{", "["} /\ sp[2] = balance(str, sp[1], sp[1] + 1, 1) }

TopLevelSpans(str) ==
    { sp \in BalancedSpans(str) :
        \A o \in BalancedSpans(str) : ~(o[1] < sp[1] /\ sp[2] < o[2]) }

\* the candidate by the three strategies as the claim words them
ClaimedCandidate(str) ==
    LET f == search_fence(str, 1)
        st == strip(str)
        atEnd == { sp \in TopLevelSpans(st) : sp[2] = Len(st) }
        any == BalancedSpans(str)
    IN IF f # <<>> THEN <<strip(f[1])>>
       ELSE IF atEnd # {}
            THEN LET sp == CHOOSE x \in atEnd : \A y \in atEnd : y[1] <= x[1]
                 IN <<SubSeq(st, sp[1], sp[2])>>
       ELSE IF any # {}
            THEN LET sp == CHOOSE x \in any : \A y \in any : x[1] <= y[1]
                 IN <<SubSeq(str, sp[1], sp[2])>>
       ELSE <<>>

\* C6: the text handed to the JSON parser is the content of the first fenced
\* json block if there is one, otherwise the last top-level {...} or [...]
\* span that ends the trimmed text, otherwise the first {...} or [...] span
\* anywhere; without any candidate the call fails with JsonNotFound; a chunk
\* that is a raw JSON object is extracted.
C6_PreferenceOrder ==
    c_pc = "done" =>
        /\ chunk_out.json_text = ClaimedCandidate(chunk)
        /\ ClaimedCandidate(chunk) = <<>> =>
              (~chunk_out.ok /\ ErrorKind(chunk_out.error) = "JsonNotFound")
        /\ IsDict(loads(chunk)) => (chunk_out.ok /\ chunk_out.value = loads(chunk)[1])

-----------------------------------------------------------------------------
(* Properties of parse_raw_data.                                           *)

\* header columns, and no data row that holds a value
AllBlank(d) ==
    /\ d.columns # <<>>
    /\ \A r \in 1..Len(d.rows) : \A j \in 1..Len(d.columns) : d.rows[r][j] = "nan"

\* header row and separator row of the cleaned column names
HeaderOnlyBlock(columns) ==
    join_lines(<<pipe_row([j \in 1..Len(columns) |-> clean_column(columns[j])]),
                 pipe_row([j \in 1..Len(columns) |-> <<"-">>])>>)

\* C8: a table with header columns whose every data row is blank is
\* normalized to zero data rows with its header columns kept, and is rendered
\* as a header-only block: the header row and the separator row.
C8_HeaderOnlyBlock ==
    AllBlank(file) =>
        /\ t_pc \in {"render", "done"} => (df.rows = <<>> /\ df.columns = file.columns)
        /\ t_pc = "done" => markdown_table = HeaderOnlyBlock(file.columns)

====
